---- MODULE Spec2Model ----
(***************************************************************************)
(* Sprite-sheet tools of the 2D platform game: the colour-driven separator *)
(* (sprite_separator.py) and the fixed-grid slicer (slice_sprite_sheet.py). *)
(* Colours are BGR triples <<b, g, r>> as cv2 delivers them.               *)
(***************************************************************************)
EXTENDS Integers, Sequences, FiniteSets, TLC

VARIABLES
    cls_pc,         \* classify_movement_by_color: "call" | "returned"
    bgr_color,      \* its argument
    cls_result,     \* its return value
    smp_pc,         \* get_dominant_background_color: "call" | "returned"
    image_section,  \* its argument: [h, w, px], px[y+1][x+1] a colour
    dominant_color, \* its return value
    script,         \* the script that runs: "sprite_separator" | "slice_sprite_sheet"
    pc,             \* "entry" | "scan" | "after_loop" | "done" | "raised"
    sprite_sheet,   \* the decoded sheet [loaded, h, w, px]; loaded = FALSE: no image
    grid_cols,      \* <<>> for None, <<n>> for the integer n
    grid_rows,
    frame_width,    \* frame_width / tile_width
    frame_height,   \* frame_height / tile_height
    row,            \* the loop variables
    col,
    cells,          \* history: every frame / tile the scan extracted, in order
    movements,      \* the dict, as its items in insertion order
    log,            \* the "Frame (r,c): Background color ... -> ..." lines
    save_index,     \* position of the loop over movements.items()
    saved,          \* per movement written: the count printed, files, combined sheet
    tile_count,     \* slice_sprite_sheet's counter
    outcome,        \* "" while running, then the return value or the exception
    cmp_pc,         \* the combined-sheet block on its own: "call" | "returned"
    cmp_frames,     \* its frames, a list of [frame, name]
    cmp_sheet,      \* the combined_sheet it builds
    mt_data,        \* make_transparent: the RGBA pixels of the file, in getdata() order
    mt_threshold,   \* its threshold argument
    mt_history      \* the file's pixels before each pass so far

clsVars == <<cls_pc, bgr_color, cls_result>>
smpVars == <<smp_pc, image_section, dominant_color>>
pipeVars == <<script, pc, sprite_sheet, grid_cols, grid_rows, frame_width, frame_height,
              row, col, cells, movements, log, save_index, saved, tile_count, outcome>>
cmpVars == <<cmp_pc, cmp_frames, cmp_sheet>>
mtVars == <<mt_data, mt_threshold, mt_history>>
vars == <<clsVars, smpVars, pipeVars, cmpVars, mtVars>>

(***************************************************************************)
(* Channel values.  The classifier only compares a channel with 0, 100,    *)
(* 150, 200, 255 and with the other channels, so each interval cut out by  *)
(* those thresholds is represented by its end points and, where it has     *)
(* room, an inner point: three channels can then take every relative order *)
(* inside every interval.                                                  *)
(***************************************************************************)
Levels == {0, 1, 99, 100, 101, 128, 149, 150, 151, 175, 199, 200, 201, 254, 255}
Colors == Levels \X Levels \X Levels

NoColor == <<>>

(***************************************************************************)
(* classify_movement_by_color                                              *)
(***************************************************************************)
\* The dict literal, in insertion order (the order `.items()` iterates).
ColorMappingsAttackFirst ==
    << [movement |-> "idle",    min_color |-> <<100, 0, 0>>,   max_color |-> <<255, 100, 100>>],
       [movement |-> "walking", min_color |-> <<0, 0, 100>>,   max_color |-> <<100, 100, 255>>],
       [movement |-> "jump",    min_color |-> <<100, 0, 100>>, max_color |-> <<255, 100, 255>>],
       [movement |-> "attack",  min_color |-> <<0, 200, 200>>, max_color |-> <<100, 255, 255>>],
       [movement |-> "get_hit", min_color |-> <<0, 100, 100>>, max_color |-> <<100, 255, 255>>],
       [movement |-> "die",     min_color |-> <<0, 100, 0>>,   max_color |-> <<100, 255, 100>>] >>

color_mappings ==
    << [movement |-> "idle",    min_color |-> <<100, 0, 0>>,   max_color |-> <<255, 100, 100>>],
       [movement |-> "walking", min_color |-> <<0, 0, 100>>,   max_color |-> <<100, 100, 255>>],
       [movement |-> "jump",    min_color |-> <<100, 0, 100>>, max_color |-> <<255, 100, 255>>],
       [movement |-> "get_hit", min_color |-> <<0, 100, 100>>, max_color |-> <<100, 255, 255>>],
       [movement |-> "die",     min_color |-> <<0, 100, 0>>,   max_color |-> <<100, 255, 100>>],
       [movement |-> "attack",  min_color |-> <<0, 200, 200>>, max_color |-> <<100, 255, 255>>] >>

\* The `if` of the loop body: min <= channel <= max on b, g and r.
InRange(c, m) ==
    /\ m.min_color[1] <= c[1] /\ c[1] <= m.max_color[1]
    /\ m.min_color[2] <= c[2] /\ c[2] <= m.max_color[2]
    /\ m.min_color[3] <= c[3] /\ c[3] <= m.max_color[3]

\* The for loop over color_mappings.items() from entry i on: the movement of
\* the first entry whose range holds c, "" when the loop falls through.
RECURSIVE RangeLoopLast(_, _)
RangeLoopLast(c, i) ==
    IF i < 1 THEN ""
    ELSE IF InRange(c, color_mappings[i]) THEN color_mappings[i].movement
    ELSE RangeLoopLast(c, i - 1)

RangeLoopReversed(c, i) == RangeLoopLast(c, Len(color_mappings) + 1 - i)

RECURSIVE RangeLoop(_, _)
RangeLoop(c, i) ==
    IF i > Len(color_mappings) THEN ""
    ELSE IF InRange(c, color_mappings[i]) THEN color_mappings[i].movement
    ELSE RangeLoop(c, i + 1)

\* The if/elif chain after the loop, and the final return 'unknown'.
DominantChannelNoDefault(c) ==
    LET b == c[1]  g == c[2]  r == c[3] IN
    IF b > g /\ b > r THEN "idle"
    ELSE IF r > g /\ r > b THEN "walking"
    ELSE IF r > 150 /\ b > 150 /\ g < 100 THEN "jump"
    ELSE IF r > 150 /\ g > 150 /\ b < 100 THEN "attack"
    ELSE IF r > 150 /\ g > 100 /\ b < 150 THEN "get_hit"
    ELSE IF g > r /\ g > b THEN "die"
    ELSE "None"

DominantChannelGreenFirst(c) ==
    LET b == c[1]  g == c[2]  r == c[3] IN
    IF b > g /\ b > r THEN "idle"
    ELSE IF r > g /\ r > b THEN "walking"
    ELSE IF g > r /\ g > b THEN "die"
    ELSE IF r > 150 /\ b > 150 /\ g < 100 THEN "jump"
    ELSE IF r > 150 /\ g > 150 /\ b < 100 THEN "attack"
    ELSE IF r > 150 /\ g > 100 /\ b < 150 THEN "get_hit"
    ELSE "unknown"

DominantChannelNonStrict(c) ==
    LET b == c[1]  g == c[2]  r == c[3] IN
    IF b >= g /\ b >= r THEN "idle"
    ELSE IF r >= g /\ r >= b THEN "walking"
    ELSE IF r > 150 /\ b > 150 /\ g < 100 THEN "jump"
    ELSE IF r > 150 /\ g > 150 /\ b < 100 THEN "attack"
    ELSE IF r > 150 /\ g > 100 /\ b < 150 THEN "get_hit"
    ELSE IF g >= r /\ g >= b THEN "die"
    ELSE "unknown"

DominantChannel(c) ==
    LET b == c[1]  g == c[2]  r == c[3] IN
    IF b > g /\ b > r THEN "idle"
    ELSE IF r > g /\ r > b THEN "walking"
    ELSE IF r > 150 /\ b > 150 /\ g < 100 THEN "jump"
    ELSE IF r > 150 /\ g > 150 /\ b < 100 THEN "attack"
    ELSE IF r > 150 /\ g > 100 /\ b < 150 THEN "get_hit"
    ELSE IF g > r /\ g > b THEN "die"
    ELSE "unknown"

classify_movement_by_color(c) ==
    LET hit == RangeLoop(c, 1) IN
    IF hit # "" THEN hit ELSE DominantChannel(c)

\* One call of the classifier on the colour chosen at Init.
Classify ==
    /\ cls_pc = "call"
    /\ cls_result' = classify_movement_by_color(bgr_color)
    /\ cls_pc' = "returned"
    /\ UNCHANGED <<bgr_color, smpVars, pipeVars, cmpVars, mtVars>>

SmpIdle ==
    /\ smp_pc = "idle"
    /\ image_section = [h |-> 0, w |-> 0, px |-> <<>>]
    /\ dominant_color = NoColor

NotLoaded == [loaded |-> FALSE, h |-> 0, w |-> 0, px |-> <<>>]

PipeIdle ==
    /\ script = "none"
    /\ pc = "idle"
    /\ sprite_sheet = NotLoaded
    /\ grid_cols = <<>> /\ grid_rows = <<>>
    /\ frame_width = 0 /\ frame_height = 0
    /\ row = 0 /\ col = 0
    /\ cells = <<>> /\ movements = <<>> /\ log = <<>>
    /\ save_index = 1 /\ saved = <<>>
    /\ tile_count = 0
    /\ outcome = ""

CmpIdle ==
    /\ cmp_pc = "idle"
    /\ cmp_frames = <<>>
    /\ cmp_sheet = [h |-> 0, w |-> 0, px |-> <<>>]

MtIdle ==
    /\ mt_data = <<>>
    /\ mt_threshold = 0
    /\ mt_history = <<>>

ClassifierInit ==
    /\ cls_pc = "call"
    /\ bgr_color \in Colors
    /\ cls_result = ""
    /\ SmpIdle
    /\ PipeIdle
    /\ CmpIdle
    /\ MtIdle

ClassifierNext == Classify

ClassifierSpec == ClassifierInit /\ [][ClassifierNext]_vars

(***************************************************************************)
(* Claims about the classifier                                             *)
(***************************************************************************)
Labels == {"idle", "walking", "jump", "get_hit", "die", "attack", "unknown"}

b_ == bgr_color[1]
g_ == bgr_color[2]
r_ == bgr_color[3]

InSomeBox == \E i \in 1..Len(color_mappings) : InRange(bgr_color, color_mappings[i])

\* The six fallback patterns, as the claims list them.
PatBlue   == b_ > g_ /\ b_ > r_
PatRed    == r_ > g_ /\ r_ > b_
PatPurple == r_ > 150 /\ b_ > 150 /\ g_ < 100
PatYellow == r_ > 150 /\ g_ > 150 /\ b_ < 100
PatOrange == r_ > 150 /\ g_ > 100 /\ b_ < 150
PatGreen  == g_ > r_ /\ g_ > b_
AnyPattern == PatBlue \/ PatRed \/ PatPurple \/ PatYellow \/ PatOrange \/ PatGreen

\* C1: every colour gets exactly one label of the closed set (the call
\* returns a string of Labels, never anything else), and a colour in no box
\* that matches no fallback pattern gets 'unknown'.
C1_TotalClosedSet ==
    cls_pc = "returned" =>
        /\ cls_result \in Labels
        /\ (~InSomeBox /\ ~AnyPattern) => cls_result = "unknown"

C1_Witness ==
    /\ cls_pc = "returned"
    /\ ~InSomeBox /\ ~AnyPattern
    /\ cls_result = "unknown"

\* C2: a colour inside at least one inclusive box is labelled with the first
\* category, in the order idle, walking, jump, get_hit, die, attack, whose
\* box contains it.
C2_FirstDefinedWins ==
    (cls_pc = "returned" /\ InSomeBox) =>
        \E i \in 1..Len(color_mappings) :
            /\ InRange(bgr_color, color_mappings[i])
            /\ \A j \in 1..(i - 1) : ~InRange(bgr_color, color_mappings[j])
            /\ cls_result = <<"idle", "walking", "jump", "get_hit", "die", "attack">>[i]

\* a colour on a box's inclusive edge that lies in two boxes: (100,100,100)
\* is in idle, walking, jump, get_hit and die at once.
C2_Witness ==
    /\ cls_pc = "returned"
    /\ bgr_color = <<100, 100, 100>>
    /\ Cardinality({i \in 1..Len(color_mappings) : InRange(bgr_color, color_mappings[i])}) >= 2
    /\ cls_result = "idle"

\* C3 as claimed: outside every box the first matching pattern decides, and
\* in particular a strictly largest blue, red or green channel decides the
\* label (idle, walking, die).
C3_Original ==
    (cls_pc = "returned" /\ ~InSomeBox) =>
        /\ cls_result = (IF PatBlue THEN "idle"
                         ELSE IF PatRed THEN "walking"
                         ELSE IF PatPurple THEN "jump"
                         ELSE IF PatYellow THEN "attack"
                         ELSE IF PatOrange THEN "get_hit"
                         ELSE IF PatGreen THEN "die"
                         ELSE "unknown")
        /\ PatBlue => cls_result = "idle"
        /\ PatRed => cls_result = "walking"
        /\ PatGreen => cls_result = "die"

\* C3 amended: outside every box the first matching pattern in the order
\* blue, red, purple, yellow, orange, green decides, 'unknown' when none
\* matches; a strictly largest blue channel gives idle, a strictly largest
\* red channel walking, and a strictly largest green channel gives die
\* unless r > 150 and b < 150, where the earlier orange pattern gives
\* get_hit.
C3_FallbackOrder ==
    (cls_pc = "returned" /\ ~InSomeBox) =>
        /\ cls_result = (IF PatBlue THEN "idle"
                         ELSE IF PatRed THEN "walking"
                         ELSE IF PatPurple THEN "jump"
                         ELSE IF PatYellow THEN "attack"
                         ELSE IF PatOrange THEN "get_hit"
                         ELSE IF PatGreen THEN "die"
                         ELSE "unknown")
        /\ PatBlue => cls_result = "idle"
        /\ PatRed => cls_result = "walking"
        /\ PatGreen => cls_result = (IF r_ > 150 /\ b_ < 150 THEN "get_hit" ELSE "die")

\* green strictly largest, no box, and the orange pattern fires first
C3_Witness ==
    /\ cls_pc = "returned"
    /\ ~InSomeBox
    /\ PatGreen /\ r_ > 150 /\ b_ < 150
    /\ cls_result = "get_hit"

\* C5: a colour with three equal channels that lies in no box is 'unknown'.
C5_GreyUnknown ==
    (cls_pc = "returned" /\ b_ = g_ /\ g_ = r_ /\ ~InSomeBox) => cls_result = "unknown"

C5_Witness ==
    /\ cls_pc = "returned"
    /\ bgr_color = <<128, 128, 128>>
    /\ ~InSomeBox
    /\ cls_result = "unknown"

(***************************************************************************)
(* get_dominant_background_color                                           *)
(***************************************************************************)
MaxCellSide == 3
MaxCellPixels == 9

Blue   == <<255, 0, 0>>
Red    == <<0, 0, 255>>
Green  == <<0, 255, 0>>
Yellow == <<0, 255, 255>>
Grey   == <<128, 128, 128>>

SamplerPalette == {Blue, Red, Green}

\* Every h x w array over a palette.
Sections(h, w, palette) ==
    {[h |-> h, w |-> w, px |-> p] : p \in [1..h -> [1..w -> palette]]}

\* image_section[y, :] and image_section[:, x] (0-based y, x).
RowOf(sec, y) == sec.px[y + 1]
ColumnOf(sec, x) == [y \in 1..sec.h |-> sec.px[y][x + 1]]

\* Lines 29-34: top row, bottom row, left column, right column, appended in
\* that order; lines 25 and 36 only reshape.
AllPixels(sec) ==
    LET RECURSIVE Rows(_)
        Rows(y) == IF y >= sec.h THEN <<>> ELSE RowOf(sec, y) \o Rows(y + 1)
    IN Rows(0)

EdgePixels(sec) ==
    RowOf(sec, 0) \o RowOf(sec, sec.h - 1) \o ColumnOf(sec, 0) \o ColumnOf(sec, sec.w - 1)

\* Row order of np.unique(axis=0): lexicographic on (b, g, r).
LexLess(c, d) ==
    \/ c[1] < d[1]
    \/ c[1] = d[1] /\ c[2] < d[2]
    \/ c[1] = d[1] /\ c[2] = d[2] /\ c[3] < d[3]

\* np.unique(..., axis=0, return_counts=True): the distinct rows in sorted
\* order, and how often each occurs.
RECURSIVE SortedRows(_)
SortedRows(S) ==
    IF S = {} THEN <<>>
    ELSE LET m == CHOOSE c \in S : \A d \in S \ {c} : LexLess(c, d)
         IN <<m>> \o SortedRows(S \ {m})

UniqueColors(pixels) == SortedRows({pixels[i] : i \in 1..Len(pixels)})

Counts(pixels) ==
    LET u == UniqueColors(pixels)
    IN [i \in 1..Len(u) |-> Cardinality({k \in 1..Len(pixels) : pixels[k] = u[i]})]

\* np.argmax: the first index holding the maximum (1-based here).
ArgMaxLast(counts) ==
    CHOOSE i \in 1..Len(counts) :
        /\ \A j \in 1..Len(counts) : counts[j] <= counts[i]
        /\ \A j \in (i + 1)..Len(counts) : counts[j] < counts[i]

ArgMax(counts) ==
    CHOOSE i \in 1..Len(counts) :
        /\ \A j \in 1..Len(counts) : counts[j] <= counts[i]
        /\ \A j \in 1..(i - 1) : counts[j] < counts[i]

get_dominant_background_color(sec) ==
    LET edge_pixels == EdgePixels(sec)
    IN UniqueColors(edge_pixels)[ArgMax(Counts(edge_pixels))]

\* One call of the sampler on the section chosen at Init.
Sample ==
    /\ smp_pc = "call"
    /\ dominant_color' = get_dominant_background_color(image_section)
    /\ smp_pc' = "returned"
    /\ UNCHANGED <<image_section, clsVars, pipeVars, cmpVars, mtVars>>

ClsIdle ==
    /\ cls_pc = "idle"
    /\ bgr_color = NoColor
    /\ cls_result = ""

SamplerInit ==
    /\ smp_pc = "call"
    /\ \E h \in 1..MaxCellSide : \E w \in 1..MaxCellSide :
          /\ h * w <= MaxCellPixels
          /\ image_section \in Sections(h, w, SamplerPalette)
    /\ dominant_color = NoColor
    /\ ClsIdle
    /\ PipeIdle
    /\ CmpIdle
    /\ MtIdle

SamplerNext == Sample

SamplerSpec == SamplerInit /\ [][SamplerNext]_vars

(***************************************************************************)
(* Claims about the sampler                                                *)
(***************************************************************************)
\* The border tally of colour c, edge by edge (a corner pixel is on two edges).
BorderCount(c) ==
    LET s == image_section IN
      Cardinality({x \in 1..s.w : s.px[1][x] = c})
    + Cardinality({x \in 1..s.w : s.px[s.h][x] = c})
    + Cardinality({y \in 1..s.h : s.px[y][1] = c})
    + Cardinality({y \in 1..s.h : s.px[y][s.w] = c})

BorderColors ==
    LET s == image_section IN
    {s.px[y][x] : <<y, x>> \in {yx \in (1..s.h) \X (1..s.w) :
                     yx[1] \in {1, s.h} \/ yx[2] \in {1, s.w}}}

MostFrequent == {c \in BorderColors : \A d \in BorderColors : BorderCount(d) <= BorderCount(c)}

\* Place of colour c's first occurrence in the scan top edge, bottom edge,
\* left edge, right edge.
FirstSeen(c) ==
    LET e == EdgePixels(image_section)
    IN CHOOSE i \in 1..Len(e) : e[i] = c /\ \A j \in 1..(i - 1) : e[j] # c

\* C6 as claimed: among the colours tied for the highest border frequency
\* the sampler returns the one met first in the scan top, bottom, left, right.
C6_Original ==
    smp_pc = "returned" =>
        /\ dominant_color \in MostFrequent
        /\ \A d \in MostFrequent : FirstSeen(dominant_color) <= FirstSeen(d)

\* C6 amended: among the colours tied for the highest border frequency the
\* sampler returns the smallest in lexicographic (b, g, r) order, wherever
\* on the border it is first met.
C6_TieBreakLexicographic ==
    smp_pc = "returned" =>
        /\ dominant_color \in MostFrequent
        /\ \A d \in MostFrequent \ {dominant_color} : LexLess(dominant_color, d)

\* a tie whose lexicographically smallest colour is not the first one met
C6_Witness ==
    /\ smp_pc = "returned"
    /\ Cardinality(MostFrequent) >= 2
    /\ \E d \in MostFrequent : FirstSeen(d) < FirstSeen(dominant_color)
    /\ \A d \in MostFrequent \ {dominant_color} : LexLess(dominant_color, d)

\* C7: the sampler returns a colour of the border whose tally over top row +
\* bottom row + left column + right column (corners tallied twice) is
\* maximal, whatever the interior pixels are.
C7_BorderMode ==
    smp_pc = "returned" =>
        /\ dominant_color \in BorderColors
        /\ \A d \in BorderColors : BorderCount(d) <= BorderCount(dominant_color)

\* a 3 x 3 section whose centre pixel has a colour the border lacks, and
\* whose border winner is decided by the corner pixels counting twice
C7_Witness ==
    /\ smp_pc = "returned"
    /\ image_section.h = 3 /\ image_section.w = 3
    /\ image_section.px[2][2] \notin BorderColors
    /\ dominant_color \in BorderColors
    /\ \E d \in BorderColors :
          /\ d # dominant_color
          /\ BorderCount(d) < BorderCount(dominant_color)
          /\ Cardinality({yx \in (1..3) \X (1..3) :
                 yx # <<2, 2>> /\ image_section.px[yx[1]][yx[2]] = d})
             = Cardinality({yx \in (1..3) \X (1..3) :
                 yx # <<2, 2>> /\ image_section.px[yx[1]][yx[2]] = dominant_color})

(***************************************************************************)
(* separate_sprite_sheet and slice_sprite_sheet                            *)
(***************************************************************************)
MaxGrid == 3          \* largest rows / cols argument
MaxSheetSide == 4     \* largest side of a single-colour sheet
MaxRichPixels == 4    \* most pixels of a sheet with freely coloured pixels

DefaultGridCols == 8
DefaultGridRows == 6

Min(a, b) == IF a <= b THEN a ELSE b
Max(a, b) == IF a >= b THEN a ELSE b

\* Python's a // b (floor division) for a >= 0 and b # 0.
FloorDiv(a, b) == IF b > 0 THEN a \div b ELSE -((a + (-b) - 1) \div (-b))

\* sprite_sheet[y:y+fh, x:x+fw]: numpy clips a slice to the axis.
Frame(sheet, y, x, fh, fw) ==
    LET y0 == Min(y, sheet.h)  y1 == Min(y + fh, sheet.h)
        x0 == Min(x, sheet.w)  x1 == Min(x + fw, sheet.w)
    IN [h |-> y1 - y0, w |-> x1 - x0,
        px |-> [j \in 1..(y1 - y0) |-> [i \in 1..(x1 - x0) |-> sheet.px[y0 + j][x0 + i]]]]

\* frame.size: the number of array elements (three channels per pixel).
FrameSize(frame) == frame.h * frame.w * 3

\* x = col * frame_width, y = row * frame_height (left / top in the slicer).
FrameX(c) == c * frame_width
FrameY(r) == r * frame_height

\* `if grid_cols is None or grid_rows is None`: both get the defaults.
EffectiveCols == IF grid_cols = <<>> \/ grid_rows = <<>> THEN DefaultGridCols ELSE grid_cols[1]
EffectiveRows == IF grid_cols = <<>> \/ grid_rows = <<>> THEN DefaultGridRows ELSE grid_rows[1]

\* for row in range(grid_rows): for col in range(grid_cols): the cell after
\* (r, c), or the end of both loops.
LoopAdvanceColumnMajor(r, c) ==
    IF r + 1 < grid_rows[1] THEN [row |-> r + 1, col |-> c, pc |-> "scan"]
    ELSE IF c + 1 < grid_cols[1] THEN [row |-> 0, col |-> c + 1, pc |-> "scan"]
    ELSE [row |-> r, col |-> c, pc |-> "after_loop"]

LoopAdvanceFirstRowOnly(r, c) ==
    IF c + 1 < grid_cols[1] THEN [row |-> r, col |-> c + 1, pc |-> "scan"]
    ELSE [row |-> r, col |-> c, pc |-> "after_loop"]

LoopAdvance(r, c) ==
    IF c + 1 < grid_cols[1] THEN [row |-> r, col |-> c + 1, pc |-> "scan"]
    ELSE IF r + 1 < grid_rows[1] THEN [row |-> r + 1, col |-> 0, pc |-> "scan"]
    ELSE [row |-> r, col |-> c, pc |-> "after_loop"]

Advance ==
    LET n == LoopAdvance(row, col)
    IN row' = n.row /\ col' = n.col /\ pc' = n.pc

\* if movement not in movements: movements[movement] = []
\* movements[movement].append(item)
DictAppendOverwrite(d, key, item) ==
    IF \E i \in 1..Len(d) : d[i].movement = key
    THEN LET i == CHOOSE i \in 1..Len(d) : d[i].movement = key
         IN [d EXCEPT ![i].frames = <<item>>]
    ELSE Append(d, [movement |-> key, frames |-> <<item>>])

DictAppendFront(d, key, item) ==
    IF \E i \in 1..Len(d) : d[i].movement = key
    THEN LET i == CHOOSE i \in 1..Len(d) : d[i].movement = key
         IN [d EXCEPT ![i].frames = <<item>> \o @]
    ELSE Append(d, [movement |-> key, frames |-> <<item>>])

DictAppend(d, key, item) ==
    IF \E i \in 1..Len(d) : d[i].movement = key
    THEN LET i == CHOOSE i \in 1..Len(d) : d[i].movement = key
         IN [d EXCEPT ![i].frames = Append(@, item)]
    ELSE Append(d, [movement |-> key, frames |-> <<item>>])

\* Lines 154-155: sum and max over the frames' shapes.
RECURSIVE SumWidths(_, _)
SumWidths(frames, n) == IF n = 0 THEN 0 ELSE SumWidths(frames, n - 1) + frames[n].frame.w

MaxHeightOfFirst(frames, n) == IF n = 0 THEN 0 ELSE frames[1].frame.h

RECURSIVE MaxHeight(_, _)
MaxHeight(frames, n) == IF n = 0 THEN 0 ELSE Max(MaxHeight(frames, n - 1), frames[n].frame.h)

\* x_offset when frame k is pasted: the widths of the frames before it.
XOffset(frames, k) == SumWidths(frames, k - 1)

\* combined_sheet[:frame.shape[0], x_offset:x_offset+frame_width] = frame
\* writes pixel (y, x) of the strip, for frame k.
Pasted(frames, k, y, x) ==
    LET x_offset == XOffset(frames, k)
    IN /\ y <= frames[k].frame.h
       /\ x_offset < x
       /\ x <= x_offset + frames[k].frame.w

\* np.zeros: every channel 0.
FillColor == <<0, 0, 0>>

\* Pixel (y, x) once the paste loop has run: that of the last frame pasted
\* over it, or the fill where no frame was pasted.
PasteAll(frames, y, x) ==
    LET over == {k \in 1..Len(frames) : Pasted(frames, k, y, x)}
    IN IF over = {} THEN FillColor
       ELSE LET k == CHOOSE k \in over : \A j \in over : j <= k
            IN frames[k].frame.px[y][x - XOffset(frames, k)]

\* Lines 154-162: the strip np.zeros((combined_height, combined_width, 3))
\* with every frame pasted at its x_offset, top-aligned.
CombinedSheet(frames) ==
    LET combined_width == SumWidths(frames, Len(frames))
        combined_height == MaxHeight(frames, Len(frames))
    IN [h |-> combined_height, w |-> combined_width,
        px |-> [y \in 1..combined_height |->
                  [x \in 1..combined_width |-> PasteAll(frames, y, x)]]]

\* print(f"\nSaving {len(frames)} frames for {movement}")
ReportedCountLastIndex(frames) == Len(frames) - 1

ReportedCount(frames) == Len(frames)

IsSeparator == script = "sprite_separator"
IsSlicer == script = "slice_sprite_sheet"

\* Lines 88-90: cv2.imread gave None.
SepLoadFail ==
    /\ IsSeparator /\ pc = "entry"
    /\ ~sprite_sheet.loaded
    /\ outcome' = "ValueError"
    /\ pc' = "raised"
    /\ UNCHANGED <<clsVars, smpVars, cmpVars, mtVars, script, sprite_sheet, grid_cols, grid_rows, frame_width,
                   frame_height, row, col, cells, movements, log, save_index, saved, tile_count>>

\* Lines 95-103 with a zero divisor: width // grid_cols or height // grid_rows raises.
SepDivideByZero ==
    /\ IsSeparator /\ pc = "entry"
    /\ sprite_sheet.loaded
    /\ EffectiveCols = 0 \/ EffectiveRows = 0
    /\ grid_cols' = <<EffectiveCols>>
    /\ grid_rows' = <<EffectiveRows>>
    /\ frame_width' = IF EffectiveCols # 0 THEN FloorDiv(sprite_sheet.w, EffectiveCols)
                      ELSE frame_width
    /\ outcome' = "ZeroDivisionError"
    /\ pc' = "raised"
    /\ UNCHANGED <<clsVars, smpVars, cmpVars, mtVars, script, sprite_sheet, frame_height, row, col, cells,
                   movements, log, save_index, saved, tile_count>>

\* Lines 92-112: defaults, frame dimensions, the empty dict, and entry to the
\* loops (range() of a number <= 0 is empty: no cell is visited).
SepSetup ==
    /\ IsSeparator /\ pc = "entry"
    /\ sprite_sheet.loaded
    /\ EffectiveCols # 0 /\ EffectiveRows # 0
    /\ grid_cols' = <<EffectiveCols>>
    /\ grid_rows' = <<EffectiveRows>>
    /\ frame_width' = FloorDiv(sprite_sheet.w, EffectiveCols)
    /\ frame_height' = FloorDiv(sprite_sheet.h, EffectiveRows)
    /\ movements' = <<>>
    /\ row' = 0 /\ col' = 0
    /\ pc' = IF EffectiveRows > 0 /\ EffectiveCols > 0 THEN "scan" ELSE "after_loop"
    /\ UNCHANGED <<clsVars, smpVars, cmpVars, mtVars, script, sprite_sheet, cells, log, save_index, saved,
                   tile_count, outcome>>

CurrentFrame == Frame(sprite_sheet, FrameY(row), FrameX(col), frame_height, frame_width)

CellRecord(frame) ==
    [row |-> row, col |-> col, x |-> FrameX(col), y |-> FrameY(row), w |-> frame.w, h |-> frame.h]

\* Lines 114-121: an empty frame is skipped.
SepSkipFrame ==
    /\ IsSeparator /\ pc = "scan"
    /\ FrameSize(CurrentFrame) = 0
    /\ cells' = Append(cells, CellRecord(CurrentFrame))
    /\ Advance
    /\ UNCHANGED <<clsVars, smpVars, cmpVars, mtVars, script, sprite_sheet, grid_cols, grid_rows, frame_width,
                   frame_height, movements, log, save_index, saved, tile_count, outcome>>

\* Lines 114-132: sample the border colour, classify it, print, store the frame.
SepClassifyFrame ==
    /\ IsSeparator /\ pc = "scan"
    /\ FrameSize(CurrentFrame) # 0
    /\ LET frame == CurrentFrame
           bg_color == get_dominant_background_color(frame)
           movement == classify_movement_by_color(bg_color)
       IN /\ log' = Append(log, [row |-> row, col |-> col, bg_color |-> bg_color,
                                 movement |-> movement])
          /\ movements' = DictAppend(movements, movement,
                                     [frame |-> frame, name |-> <<row, col>>])
          /\ cells' = Append(cells, CellRecord(frame))
    /\ Advance
    /\ UNCHANGED <<clsVars, smpVars, cmpVars, mtVars, script, sprite_sheet, grid_cols, grid_rows, frame_width,
                   frame_height, save_index, saved, tile_count, outcome>>

\* Lines 137-166, one iteration: the count printed, one file per frame and,
\* for more than one frame, the combined sheet.  (`if not frames: continue`
\* never applies: a list enters the dict with its first frame.)  Line 160
\* rebinds frame_width to the width of the last frame pasted.
SepSaveMovement ==
    /\ IsSeparator /\ pc = "after_loop"
    /\ save_index <= Len(movements)
    /\ LET frames == movements[save_index].frames
       IN /\ saved' = Append(saved,
                [movement |-> movements[save_index].movement,
                 count    |-> ReportedCount(frames),
                 files    |-> [i \in 1..Len(frames) |-> frames[i].name],
                 combined |-> IF Len(frames) > 1 THEN <<CombinedSheet(frames)>> ELSE <<>>])
          /\ frame_width' = IF Len(frames) > 1 THEN frames[Len(frames)].frame.w
                            ELSE frame_width
    /\ save_index' = save_index + 1
    /\ UNCHANGED <<clsVars, smpVars, cmpVars, mtVars, script, pc, sprite_sheet, grid_cols, grid_rows,
                   frame_height, row, col, cells, movements, log, tile_count, outcome>>

\* The loop over movements.items() is exhausted: the function returns.
SepFinish ==
    /\ IsSeparator /\ pc = "after_loop"
    /\ save_index > Len(movements)
    /\ outcome' = "returned"
    /\ pc' = "done"
    /\ UNCHANGED <<clsVars, smpVars, cmpVars, mtVars, script, sprite_sheet, grid_cols, grid_rows, frame_width,
                   frame_height, row, col, cells, movements, log, save_index, saved, tile_count>>

\* slice_sprite_sheet lines 23-29: Image.open raised; the function returns False.
SliceLoadFail ==
    /\ IsSlicer /\ pc = "entry"
    /\ ~sprite_sheet.loaded
    /\ outcome' = "False"
    /\ pc' = "done"
    /\ UNCHANGED <<clsVars, smpVars, cmpVars, mtVars, script, sprite_sheet, grid_cols, grid_rows, frame_width,
                   frame_height, row, col, cells, movements, log, save_index, saved, tile_count>>

\* Lines 33-34 with a zero divisor.
SliceDivideByZero ==
    /\ IsSlicer /\ pc = "entry"
    /\ sprite_sheet.loaded
    /\ grid_cols[1] = 0 \/ grid_rows[1] = 0
    /\ frame_width' = IF grid_cols[1] # 0 THEN FloorDiv(sprite_sheet.w, grid_cols[1])
                      ELSE frame_width
    /\ outcome' = "ZeroDivisionError"
    /\ pc' = "raised"
    /\ UNCHANGED <<clsVars, smpVars, cmpVars, mtVars, script, sprite_sheet, grid_cols, grid_rows, frame_height,
                   row, col, cells, movements, log, save_index, saved, tile_count>>

\* Lines 32-43: tile dimensions, the counter, entry to the loops.
SliceSetup ==
    /\ IsSlicer /\ pc = "entry"
    /\ sprite_sheet.loaded
    /\ grid_cols[1] # 0 /\ grid_rows[1] # 0
    /\ frame_width' = FloorDiv(sprite_sheet.w, grid_cols[1])
    /\ frame_height' = FloorDiv(sprite_sheet.h, grid_rows[1])
    /\ tile_count' = 0
    /\ row' = 0 /\ col' = 0
    /\ pc' = IF grid_rows[1] > 0 /\ grid_cols[1] > 0 THEN "scan" ELSE "after_loop"
    /\ UNCHANGED <<clsVars, smpVars, cmpVars, mtVars, script, sprite_sheet, grid_cols, grid_rows, cells,
                   movements, log, save_index, saved, outcome>>

\* The box (left, top, right, bottom) of lines 46-49, as a cell.
TileRecord ==
    [row |-> row, col |-> col, x |-> FrameX(col), y |-> FrameY(row),
     w |-> (FrameX(col) + frame_width) - FrameX(col),
     h |-> (FrameY(row) + frame_height) - FrameY(row)]

\* Lines 45-60 for a tile with pixels: crop, save, count.
SliceSaveTile ==
    /\ IsSlicer /\ pc = "scan"
    /\ frame_width > 0 /\ frame_height > 0
    /\ cells' = Append(cells, TileRecord)
    /\ tile_count' = tile_count + 1
    /\ Advance
    /\ UNCHANGED <<clsVars, smpVars, cmpVars, mtVars, script, sprite_sheet, grid_cols, grid_rows, frame_width,
                   frame_height, movements, log, save_index, saved, outcome>>

\* Lines 45-60 for a tile of width or height 0.  What Image.save does with an
\* empty image is the imaging library's choice: it writes the file or raises.
SliceSaveEmptyTile ==
    /\ IsSlicer /\ pc = "scan"
    /\ frame_width = 0 \/ frame_height = 0
    /\ \/ /\ cells' = Append(cells, TileRecord)
          /\ tile_count' = tile_count + 1
          /\ Advance
          /\ UNCHANGED outcome
       \/ /\ outcome' = "SaveError"
          /\ pc' = "raised"
          /\ UNCHANGED <<cells, tile_count, row, col>>
    /\ UNCHANGED <<clsVars, smpVars, cmpVars, mtVars, script, sprite_sheet, grid_cols, grid_rows, frame_width,
                   frame_height, movements, log, save_index, saved>>

\* Lines 62-64: the summary is printed and True returned.
SliceFinish ==
    /\ IsSlicer /\ pc = "after_loop"
    /\ outcome' = "True"
    /\ pc' = "done"
    /\ UNCHANGED <<clsVars, smpVars, cmpVars, mtVars, script, sprite_sheet, grid_cols, grid_rows, frame_width,
                   frame_height, row, col, cells, movements, log, save_index, saved, tile_count>>

(***************************************************************************)
(* Inputs: sheets and grid arguments                                       *)
(***************************************************************************)
RichPalette == {Blue, Red, Green, Yellow}
UniformPalette == {Blue, Red, Green, Yellow, Grey}

Loaded(sec) == [loaded |-> TRUE, h |-> sec.h, w |-> sec.w, px |-> sec.px]

\* Small sheets, every pixel coloured freely.
RichSheets ==
    UNION {UNION {{Loaded(sec) : sec \in Sections(h, w, RichPalette)}
                  : w \in {w \in 1..MaxRichPixels : h * w <= MaxRichPixels}}
           : h \in 1..MaxRichPixels}

\* Larger sheets of one colour, up to the size the default 8 x 6 grid fits.
UniformSheets ==
    {Loaded([h |-> h, w |-> w, px |-> [y \in 1..h |-> [x \in 1..w |-> c]]]) :
        <<h, w, c>> \in ((1..MaxSheetSide) \cup {DefaultGridRows})
                        \X ((1..MaxSheetSide) \cup {DefaultGridCols})
                        \X UniformPalette}

GridArgs == (-1)..MaxGrid
OptionalGridArgs == {<<>>} \cup {<<n>> : n \in GridArgs}

Init ==
    /\ ClsIdle
    /\ SmpIdle
    /\ CmpIdle
    /\ MtIdle
    /\ script \in {"sprite_separator", "slice_sprite_sheet"}
    /\ pc = "entry"
    /\ sprite_sheet \in (IF IsSeparator THEN {NotLoaded} \cup RichSheets \cup UniformSheets
                         ELSE {NotLoaded} \cup UniformSheets)
    /\ grid_cols \in (IF IsSeparator THEN OptionalGridArgs ELSE {<<n>> : n \in GridArgs})
    /\ grid_rows \in (IF IsSeparator THEN OptionalGridArgs ELSE {<<n>> : n \in GridArgs})
    /\ frame_width = 0 /\ frame_height = 0
    /\ row = 0 /\ col = 0
    /\ cells = <<>> /\ movements = <<>> /\ log = <<>>
    /\ save_index = 1 /\ saved = <<>>
    /\ tile_count = 0
    /\ outcome = ""

Next ==
    \/ SepLoadFail
    \/ SepDivideByZero
    \/ SepSetup
    \/ SepSkipFrame
    \/ SepClassifyFrame
    \/ SepSaveMovement
    \/ SepFinish
    \/ SliceLoadFail
    \/ SliceDivideByZero
    \/ SliceSetup
    \/ SliceSaveTile
    \/ SliceSaveEmptyTile
    \/ SliceFinish

Spec == Init /\ [][Next]_vars

(***************************************************************************)
(* Claims about the grid scan and the grouping                             *)
(***************************************************************************)
ScanOver == pc \in {"after_loop", "done"} /\ sprite_sheet.loaded

\* Pixel (x, y) of the sheet (0-based) lies in cell c.
Covers(c, x, y) == c.x <= x /\ x < c.x + c.w /\ c.y <= y /\ y < c.y + c.h

CellArea(c) == c.w * c.h

\* C8: with rows, cols >= 1, W >= cols and H >= rows the scan (of either
\* script) yields exactly rows*cols cells of size (W div cols) x (H div rows)
\* in row-major order, inside the sheet, and every pixel left of the last
\* W mod cols columns and above the last H mod rows rows lies in exactly one
\* cell, every other pixel in none.
C8_GridPartition ==
    (/\ ScanOver
     /\ grid_rows[1] >= 1 /\ grid_cols[1] >= 1
     /\ sprite_sheet.w >= grid_cols[1] /\ sprite_sheet.h >= grid_rows[1]) =>
        LET R == grid_rows[1]  C == grid_cols[1]
            W == sprite_sheet.w  H == sprite_sheet.h
        IN /\ Len(cells) = R * C
           /\ \A k \in 1..Len(cells) :
                 /\ cells[k].row = (k - 1) \div C
                 /\ cells[k].col = (k - 1) % C
                 /\ cells[k].w = W \div C
                 /\ cells[k].h = H \div R
                 /\ 0 <= cells[k].x /\ cells[k].x + cells[k].w <= W
                 /\ 0 <= cells[k].y /\ cells[k].y + cells[k].h <= H
           /\ W % C <= C - 1 /\ H % R <= R - 1
           /\ \A x \in 0..(W - 1) : \A y \in 0..(H - 1) :
                 Cardinality({k \in 1..Len(cells) : Covers(cells[k], x, y)})
                     = (IF x < W - (W % C) /\ y < H - (H % R) THEN 1 ELSE 0)

\* a finished scan of a 2 x 2 or finer grid that leaves pixels over on the
\* right and at the bottom
C8_Witness ==
    /\ IsSeparator /\ pc = "done"
    /\ grid_rows[1] >= 2 /\ grid_cols[1] >= 2
    /\ sprite_sheet.w >= grid_cols[1] /\ sprite_sheet.h >= grid_rows[1]
    /\ sprite_sheet.w % grid_cols[1] > 0 /\ sprite_sheet.h % grid_rows[1] > 0
    /\ Len(cells) = grid_rows[1] * grid_cols[1]

\* The grid the scan ran (or was about to run) with is invalid.
GridInvalid ==
    /\ sprite_sheet.loaded
    /\ grid_rows # <<>> /\ grid_cols # <<>>
    /\ \/ grid_rows[1] <= 0
       \/ grid_cols[1] <= 0
       \/ FloorDiv(sprite_sheet.w, grid_cols[1]) = 0
       \/ FloorDiv(sprite_sheet.h, grid_rows[1]) = 0

\* C9: a run on an invalid grid (rows <= 0, cols <= 0, or a cell width or
\* height of 0) ends in an error -- any exception is taken for the
\* InvalidGridError here -- with no cell and no group produced.
C9_InvalidGridFails ==
    (pc \in {"done", "raised"} /\ GridInvalid) =>
        /\ pc = "raised"
        /\ outcome \in {"InvalidGridError", "ZeroDivisionError", "SaveError"}
        /\ cells = <<>> /\ movements = <<>> /\ saved = <<>>

\* How many times cell <<r, c>> sits in a group.
Memberships(r, c) ==
    Cardinality({ij \in UNION {{<<i, j>> : j \in 1..Len(movements[i].frames)}
                               : i \in 1..Len(movements)} :
                    movements[ij[1]].frames[ij[2]].name = <<r, c>>})

RECURSIVE GroupSizes(_)
GroupSizes(n) == IF n = 0 THEN 0 ELSE GroupSizes(n - 1) + Len(movements[n].frames)

\* C10: after the grid scan of separate_sprite_sheet (rows, cols >= 1) every
\* cell with pixels sits in exactly one group, once, and was classified
\* once; a zero-area cell sits in none; no group in the dict or written out
\* is empty; and the group sizes add up to rows*cols minus the zero-area
\* cells.
C10_EveryCellInOneGroup ==
    (IsSeparator /\ ScanOver /\ grid_rows[1] >= 1 /\ grid_cols[1] >= 1) =>
        /\ \A r \in 0..(grid_rows[1] - 1) : \A c \in 0..(grid_cols[1] - 1) :
              \E k \in 1..Len(cells) :
                 /\ cells[k].row = r /\ cells[k].col = c
                 /\ Memberships(r, c) = (IF CellArea(cells[k]) > 0 THEN 1 ELSE 0)
                 /\ Cardinality({j \in 1..Len(log) : log[j].row = r /\ log[j].col = c})
                        = (IF CellArea(cells[k]) > 0 THEN 1 ELSE 0)
        /\ \A i \in 1..Len(movements) :
              /\ Len(movements[i].frames) >= 1
              /\ \A j \in 1..Len(movements) : movements[j].movement = movements[i].movement => j = i
        /\ \A i \in 1..Len(saved) : saved[i].count >= 1 /\ Len(saved[i].files) = saved[i].count
        /\ GroupSizes(Len(movements))
              = grid_rows[1] * grid_cols[1]
                - Cardinality({k \in 1..Len(cells) : CellArea(cells[k]) = 0})

\* a finished run with two groups or more, one of them of two cells or more
C10_Witness ==
    /\ IsSeparator /\ pc = "done"
    /\ Len(movements) >= 2
    /\ \E i \in 1..Len(movements) : Len(movements[i].frames) >= 2
    /\ GroupSizes(Len(movements)) = grid_rows[1] * grid_cols[1]

FourColourSheet == [loaded |-> TRUE, h |-> 2, w |-> 2, px |-> <<<<Blue, Red>>, <<Green, Yellow>>>>]

\* C4: the 2 x 2 sheet with cells pure blue, pure red, pure green, pure
\* yellow in scan order, cut 2 x 2, gives exactly the four singleton groups
\* idle, walking, die, attack.
C4_FourColourScenario ==
    (/\ IsSeparator /\ pc = "done"
     /\ sprite_sheet = FourColourSheet
     /\ grid_rows = <<2>> /\ grid_cols = <<2>>) =>
        {<<movements[i].movement, [j \in 1..Len(movements[i].frames) |-> movements[i].frames[j].name]>>
            : i \in 1..Len(movements)}
        = { <<"idle",    << <<0, 0>> >> >>,
            <<"walking", << <<0, 1>> >> >>,
            <<"die",     << <<1, 0>> >> >>,
            <<"attack",  << <<1, 1>> >> >> }

(***************************************************************************)
(* Claims about the order and the output of the groups                     *)
(***************************************************************************)
\* Grid position a comes before b in scan order.
ScanBefore(a, b) == a[1] < b[1] \/ (a[1] = b[1] /\ a[2] < b[2])

\* Frame k of the group sits in the strip from column off + 1 on, unchanged.
InStripAt(strip, frame, off) ==
    \A y \in 1..frame.h : \A x \in 1..frame.w : strip.px[y][off + x] = frame.px[y][x]

\* C11: in every group the cells stand in strictly ascending (row, col)
\* order, in the dict's list, in the files written and, left to right, in
\* the combined strip.
C11_GroupsInScanOrder ==
    IsSeparator =>
        /\ \A i \in 1..Len(movements) :
              \A j \in 1..Len(movements[i].frames) : \A k \in 1..Len(movements[i].frames) :
                 j < k => ScanBefore(movements[i].frames[j].name, movements[i].frames[k].name)
        /\ \A i \in 1..Len(saved) :
              /\ \A j \in 1..Len(saved[i].files) : \A k \in 1..Len(saved[i].files) :
                    j < k => ScanBefore(saved[i].files[j], saved[i].files[k])
              /\ saved[i].combined # <<>> =>
                    \A k \in 1..Len(movements[i].frames) :
                       /\ saved[i].files[k] = movements[i].frames[k].name
                       /\ InStripAt(saved[i].combined[1], movements[i].frames[k].frame,
                                    SumWidths(movements[i].frames, k - 1))

\* a written group with two cells of different pixels
C11_Witness ==
    /\ IsSeparator /\ pc = "done"
    /\ \E i \in 1..Len(saved) :
          /\ saved[i].combined # <<>>
          /\ \E j \in 1..Len(movements[i].frames) : \E k \in 1..Len(movements[i].frames) :
                /\ j < k
                /\ movements[i].frames[j].frame.px # movements[i].frames[k].frame.px
                /\ ScanBefore(movements[i].frames[j].name, movements[i].frames[k].name)

(***************************************************************************)
(* The combined-sheet block (lines 151-166) on a list of frames            *)
(***************************************************************************)
MaxFrames == 3         \* longest list of frames
MaxFramePixels == 2    \* most pixels of one frame
MaxStripPixels == 5    \* most pixels of all the frames of a list together

FramePalette == {Blue, Red}

FrameChoices ==
    UNION {UNION {Sections(h, w, FramePalette)
                  : w \in {w \in 1..MaxFramePixels : h * w <= MaxFramePixels}}
           : h \in 1..MaxFramePixels}

\* `if len(frames) > 1`: the strip is built and written.
Compose ==
    /\ cmp_pc = "call"
    /\ Len(cmp_frames) > 1
    /\ cmp_sheet' = CombinedSheet(cmp_frames)
    /\ cmp_pc' = "returned"
    /\ UNCHANGED <<cmp_frames, clsVars, smpVars, pipeVars, mtVars>>

\* A single frame gets no combined sheet.
ComposeSkip ==
    /\ cmp_pc = "call"
    /\ Len(cmp_frames) <= 1
    /\ cmp_pc' = "skipped"
    /\ UNCHANGED <<cmp_frames, cmp_sheet, clsVars, smpVars, pipeVars, mtVars>>

RECURSIVE TotalPixels(_, _)
TotalPixels(frames, n) ==
    IF n = 0 THEN 0 ELSE TotalPixels(frames, n - 1) + frames[n].frame.h * frames[n].frame.w

CompositeInit ==
    /\ cmp_pc = "call"
    /\ \E n \in 1..MaxFrames :
          cmp_frames \in [1..n -> {[frame |-> f, name |-> <<0, 0>>] : f \in FrameChoices}]
    /\ TotalPixels(cmp_frames, Len(cmp_frames)) <= MaxStripPixels
    /\ cmp_sheet = [h |-> 0, w |-> 0, px |-> <<>>]
    /\ ClsIdle
    /\ SmpIdle
    /\ PipeIdle
    /\ MtIdle

CompositeNext == Compose \/ ComposeSkip

CompositeSpec == CompositeInit /\ [][CompositeNext]_vars

\* The widths of members 1..n of the list, added up.
RECURSIVE WidthBefore(_)
WidthBefore(i) == IF i <= 1 THEN 0 ELSE WidthBefore(i - 1) + cmp_frames[i - 1].frame.w


\* C12: the strip is as wide as its members together and as high as the
\* tallest; member i starts at the summed width of the members before it,
\* top-aligned and unchanged, and every pixel below a shorter member is the
\* fill colour, np.zeros' (0, 0, 0).
C12_CompositeStrip ==
    cmp_pc = "returned" =>
        /\ cmp_sheet.w = WidthBefore(Len(cmp_frames) + 1)
        /\ \A i \in 1..Len(cmp_frames) : cmp_frames[i].frame.h <= cmp_sheet.h
        /\ \E i \in 1..Len(cmp_frames) : cmp_frames[i].frame.h = cmp_sheet.h
        /\ \A i \in 1..Len(cmp_frames) :
              LET f == cmp_frames[i].frame IN
              /\ InStripAt(cmp_sheet, f, WidthBefore(i))
              /\ \A y \in (f.h + 1)..cmp_sheet.h : \A x \in 1..f.w :
                    cmp_sheet.px[y][WidthBefore(i) + x] = FillColor

\* three members, the middle one taller: the rows under the first and the
\* third are fill
C12_Witness ==
    /\ cmp_pc = "returned"
    /\ Len(cmp_frames) = 3
    /\ cmp_frames[1].frame.h = 1 /\ cmp_frames[2].frame.h = 2 /\ cmp_frames[3].frame.h = 1
    /\ cmp_sheet.h = 2
    /\ cmp_sheet.px[2][1] = FillColor /\ cmp_sheet.px[2][cmp_sheet.w] = FillColor
    /\ cmp_sheet.px[2][cmp_frames[1].frame.w + 1] # FillColor

(***************************************************************************)
(* Claims about when groups are filled and written                         *)
(***************************************************************************)
\* Every cell of the grid has been sampled and classified.
AllClassified ==
    /\ grid_rows # <<>> /\ grid_cols # <<>>
    /\ \A r \in 0..(grid_rows[1] - 1) : \A c \in 0..(grid_cols[1] - 1) :
          \E j \in 1..Len(log) : log[j].row = r /\ log[j].col = c

\* C14 as claimed: no cell is in a group, and no group is written or
\* composited, before every cell of the sheet is sampled and classified.
C14_Original ==
    (IsSeparator /\ (movements # <<>> \/ saved # <<>>)) => AllClassified

\* C14 amended: no group is written out or composited before every cell of
\* the sheet is sampled and classified and the scan has ended (a cell joins
\* its group's list during the scan, right after its own classification).
C14_WriteAfterScan ==
    (IsSeparator /\ saved # <<>>) => (pc \in {"after_loop", "done"} /\ AllClassified)

\* a group is written after a scan of several rows and columns
C14_Witness ==
    /\ IsSeparator /\ saved # <<>>
    /\ grid_rows[1] >= 2 /\ grid_cols[1] >= 2
    /\ AllClassified
    /\ Len(log) = grid_rows[1] * grid_cols[1]

\* The cells classified under label l in this run.
ClassifiedAs(l) == Cardinality({j \in 1..Len(log) : log[j].movement = l})

\* The "Saving N frames for l" lines printed for label l.
ReportsOf(l) == {i \in 1..Len(saved) : saved[i].movement = l}

\* C15 as claimed: a completed run reports a count for every label of the
\* closed set, 'unknown' included, equal to the number of cells so labelled.
C15_Original ==
    (IsSeparator /\ pc = "done") =>
        \A l \in Labels : \E i \in ReportsOf(l) : saved[i].count = ClassifiedAs(l)

\* C15 amended: a completed run reports, once for each label that at least
\* one cell was classified under ('unknown' included), the number of cells
\* so classified, which is the size of the label's group; a label with no
\* cell gets no report.
C15_ReportsNonEmptyLabels ==
    (IsSeparator /\ pc = "done") =>
        \A l \in Labels :
           IF ClassifiedAs(l) > 0
           THEN /\ Cardinality(ReportsOf(l)) = 1
                /\ \A i \in ReportsOf(l) :
                      /\ saved[i].count = ClassifiedAs(l)
                      /\ \E k \in 1..Len(movements) :
                            /\ movements[k].movement = l
                            /\ Len(movements[k].frames) = saved[i].count
           ELSE ReportsOf(l) = {}

\* a completed run that reports several cells under 'unknown'
C15_Witness ==
    /\ IsSeparator /\ pc = "done"
    /\ \E i \in ReportsOf("unknown") : saved[i].count >= 2 /\ saved[i].count = ClassifiedAs("unknown")

(***************************************************************************)
(* The attack label                                                        *)
(***************************************************************************)
InBoxOf(l) ==
    \E i \in 1..Len(color_mappings) :
        color_mappings[i].movement = l /\ InRange(bgr_color, color_mappings[i])

MaxImagePixels == 3    \* most pixels of an image
MaxPasses == 3         \* most runs over the same file

DefaultThreshold == 30

Thresholds == {1, DefaultThreshold}

Transparent == <<255, 255, 255, 0>>

\* RGBA pixels around the threshold, seen from black and from white.
PixelChoices ==
    { <<0, 0, 0, 255>>, <<29, 29, 29, 255>>, <<30, 0, 0, 255>>, <<0, 29, 30, 255>>,
      <<255, 255, 255, 255>>, <<226, 226, 226, 255>>, <<225, 255, 255, 255>>,
      <<128, 128, 128, 255>>, <<0, 0, 0, 0>>, Transparent }

Abs(x) == IF x < 0 THEN -x ELSE x

\* .convert('RGBA'): an RGB pixel gets alpha 255, an RGBA pixel stays.
ConvertRGBA(p) == IF Len(p) = 3 THEN p \o <<255>> ELSE p

\* Lines 26-28.
CloseToInclusive(item, bg_color, threshold) ==
    /\ Abs(item[1] - bg_color[1]) <= threshold
    /\ Abs(item[2] - bg_color[2]) <= threshold
    /\ Abs(item[3] - bg_color[3]) <= threshold

CloseTo(item, bg_color, threshold) ==
    /\ Abs(item[1] - bg_color[1]) < threshold
    /\ Abs(item[2] - bg_color[2]) < threshold
    /\ Abs(item[3] - bg_color[3]) < threshold

\* Lines 16-36: the pixels written back for the pixels read.
make_transparent(file, threshold) ==
    LET data == [i \in 1..Len(file) |-> ConvertRGBA(file[i])]
        bg_color == SubSeq(data[1], 1, 3)
    IN [i \in 1..Len(data) |->
           IF CloseTo(data[i], bg_color, threshold) THEN Transparent ELSE data[i]]

\* process_directory on the file once more: input_path is output_path.
MtPass ==
    /\ mt_data # <<>>
    /\ Len(mt_history) < MaxPasses
    /\ mt_history' = Append(mt_history, mt_data)
    /\ mt_data' = make_transparent(mt_data, mt_threshold)
    /\ UNCHANGED <<mt_threshold, clsVars, smpVars, pipeVars, cmpVars>>

TransparentInit ==
    /\ \E n \in 1..MaxImagePixels : \E mode \in {"RGB", "RGBA"} :
          \E px \in [1..n -> PixelChoices] :
             mt_data = IF mode = "RGB" THEN [i \in 1..n |-> SubSeq(px[i], 1, 3)] ELSE px
    /\ mt_threshold \in Thresholds
    /\ mt_history = <<>>
    /\ ClsIdle
    /\ SmpIdle
    /\ PipeIdle
    /\ CmpIdle

TransparentNext == MtPass

TransparentSpec == TransparentInit /\ [][TransparentNext]_vars

\* The file's pixels after k passes (k = 0: as first opened, in RGBA).
AfterPass(k) ==
    IF k = 0 THEN [i \in 1..Len(mt_history[1]) |-> ConvertRGBA(mt_history[1][i])]
    ELSE IF k = Len(mt_history) THEN mt_data ELSE mt_history[k + 1]

\* Each of R, G, B of p is less than t away from that of q.
Within(p, q, t) ==
    \A ch \in 1..3 : p[ch] - q[ch] < t /\ q[ch] - p[ch] < t

\* One pass: a pixel becomes (255,255,255,0) iff it is within the threshold
\* of the top-left pixel on R, G and B; every other pixel is unchanged.
SinglePassRule ==
    Len(mt_history) >= 1 =>
        \A i \in 1..Len(mt_data) :
           AfterPass(1)[i] = (IF Within(AfterPass(0)[i], AfterPass(0)[1], mt_threshold)
                              THEN Transparent ELSE AfterPass(0)[i])

\* C17 as claimed: a second pass in place changes nothing, and one pass
\* follows the single-pass rule.
C17_Original ==
    /\ SinglePassRule
    /\ Len(mt_history) >= 2 => AfterPass(2) = AfterPass(1)

\* C17 amended: one pass follows the single-pass rule; a second pass in
\* place takes (255,255,255) as its reference and clears exactly the pixels
\* the first pass kept whose R, G and B all exceed 255 - threshold, so twice
\* equals once iff the first pass kept no such pixel; from the second pass
\* on a further pass changes nothing.
C17_SecondPassClearsNearWhite ==
    /\ SinglePassRule
    /\ Len(mt_history) >= 2 =>
          /\ \A i \in 1..Len(mt_data) :
                AfterPass(2)[i] =
                   (IF \A ch \in 1..3 : AfterPass(1)[i][ch] > 255 - mt_threshold
                    THEN Transparent ELSE AfterPass(1)[i])
          /\ (AfterPass(2) = AfterPass(1)) <=>
                (\A i \in 1..Len(mt_data) :
                    AfterPass(1)[i] = Transparent
                    \/ \E ch \in 1..3 : AfterPass(1)[i][ch] <= 255 - mt_threshold)
    /\ Len(mt_history) >= 3 => AfterPass(3) = AfterPass(2)

\* a black background with a white pixel: kept by the first pass, cleared
\* by the second
C17_Witness ==
    /\ Len(mt_history) >= 2
    /\ AfterPass(0)[1] = <<0, 0, 0, 255>>
    /\ \E i \in 1..Len(mt_data) :
          /\ AfterPass(1)[i] = <<255, 255, 255, 255>>
          /\ AfterPass(2)[i] = Transparent
    /\ AfterPass(2) # AfterPass(1)

====
